---- MODULE Spec2Model ----
(***************************************************************************)
(* A model of gainmap-js: renderSDR (src/encode-utils/render-sdr.ts),      *)
(* decode (decode.ts) and encode / encodeAndCompress (src/encode.ts).      *)
(*                                                                         *)
(* GPU-side objects (renderers, render targets, textures, materials) live  *)
(* in `heap`; an object is addressed by its index.  Every object counts    *)
(* how often it was disposed and, for a renderer, how often its context    *)
(* was force-lost and which render target is active on it.                 *)
(***************************************************************************)
EXTENDS Integers, Sequences, FiniteSets, TLC

\* ------------------------------------------------------------------ bounds
MaxCalls == 1        \* calls of the function under study in one behaviour
MaxDim == 2          \* image widths and heights are drawn from 1..MaxDim
MaxBoost == 2        \* maxDisplayBoost is drawn from 1..MaxBoost
MaxRenders == 3      \* renders of one pass (the first one and re-renders)
MaxParam == 2        \* a material parameter takes its values in 1..MaxParam
MaxChanges == 1      \* parameter changes the caller makes on one result
MaxSnapshots == 1    \* metadata records the caller asks for on one result

\* --------------------------------------------------------------- constants
Channels == 4        \* RGBA: new Uint8ClampedArray(width * height * 4)

Dims == 1..MaxDim

VARIABLES
  heap,             \* GPU-side objects, by address
  calls,            \* calls started so far
  \* ---- renderSDR
  pc,               \* position inside renderSDR
  suppliedRenderer, \* the `renderer` argument: an address, or 0 when absent
  width, height,    \* hdrTexture.image.width / height
  renderer,         \* _renderer
  destroyRenderer,
  renderTarget,
  thrown,           \* what _renderer.render threw, or Nothing
  renderError,
  out,              \* the host buffer, or Undefined
  outcome,          \* how the call ended
  log,              \* the backend calls of the current call, in order
  \* ---- decode
  dpc,              \* position inside decode and in the life of its result
  decodeParams,     \* params: sdr, gainMap (images), renderer, maxDisplayBoost
  sdrTexture,
  gainMapTexture,
  material,         \* the GainMapDecoderMaterial
  maxDisplayBoost,  \* material.maxDisplayBoost
  quadRenderer,     \* the pass decode builds and returns
  decodeThrown,     \* what quadRenderer.render() threw inside decode, or Nothing
  decodeOutcome,    \* how decode ended
  \* ---- encode / encodeAndCompress
  epc,              \* position inside encode / encodeAndCompress and after
  encodeParams,     \* params: renderer, withWorker; fn: the function called
  sdr,              \* the SDR pass (getSDRRendition's result)
  gainMapRenderer,  \* the gain-map pass (getGainMap's result)
  rendering,        \* the passes that are inside render() right now
  objects,          \* JS objects by reference: the material, metadata records
  changes,          \* parameter changes made by the caller so far
  snapshots,        \* the records getMetadata() returned to the caller
  sdrImageData,
  gainMapImageData,
  tasks,            \* the two compressions, in the order they were dispatched
  completionOrder,  \* the order in which they completed
  compressResult,
  rawSDR,
  rawGainMap,
  result,           \* what encodeAndCompress resolved with
  encodeOutcome     \* how the call ended

sdrVars == <<pc, suppliedRenderer, width, height, renderer, destroyRenderer,
             renderTarget, thrown, renderError, out, outcome, log>>
decVars == <<dpc, decodeParams, sdrTexture, gainMapTexture, material,
             maxDisplayBoost, quadRenderer, decodeThrown, decodeOutcome>>
encVars == <<epc, encodeParams, sdr, gainMapRenderer, rendering, objects,
             changes, snapshots, sdrImageData, gainMapImageData, tasks,
             completionOrder, compressResult, rawSDR, rawGainMap, result,
             encodeOutcome>>
notSdrVars == <<decVars, encVars>>
notDecVars == <<sdrVars, encVars>>
notEncVars == <<sdrVars, decVars>>
vars == <<heap, calls, sdrVars, decVars, encVars>>

\* ------------------------------------------------------------- JS values
Undefined == [type |-> "undefined", text |-> "", length |-> 0]
Nothing == [type |-> "nothing", text |-> ""]
NoOutcome == [kind |-> "none", type |-> "", text |-> ""]
Running == [kind |-> "running", type |-> "", text |-> ""]

\* What a backend can throw: any JavaScript value.
ThrownValues ==
  { [type |-> "Error", text |-> "context lost"],
    [type |-> "Error", text |-> ""],
    [type |-> "string", text |-> "out of memory"],
    [type |-> "string", text |-> ""],
    [type |-> "symbol", text |-> "oops"] }

\* `${e}` is ToString(e): a Symbol cannot be converted and raises a TypeError.
ToStringThrows(e) == e.type = "symbol"

\* `${e}` for the values that convert: Error.prototype.toString gives the name
\* alone when the message is empty, name + ": " + message otherwise.
TemplateString(e) ==
  CASE e.type = "Error" -> IF e.text = "" THEN "Error" ELSE "Error: " \o e.text
    [] e.type = "string" -> e.text
    [] OTHER -> ""

JSString(s) == [type |-> "string", text |-> s, length |-> Len(s)]

\* if (renderError): undefined and the empty string are falsy.
Truthy(v) == v.type = "string" /\ v.text /= ""

ErrorPrefix == "An error occurred while rendering the SDR image: "

\* ------------------------------------------------------------------ heap
NewObject(kind) == [kind |-> kind, disposed |-> 0, contextLost |-> 0, target |-> 0]

Alloc(h, kind) == Append(h, NewObject(kind))

SetRenderTarget(h, r, t) == [h EXCEPT ![r].target = t]

DisposeObject(h, o) == [h EXCEPT ![o].disposed = @ + 1]

ForceContextLoss(h, r) == [h EXCEPT ![r].contextLost = @ + 1]

\* The renderer the caller owns and may pass in; it exists before any call.
CallerRenderer == 1

\* const instantiateRenderer = () => new WebGLRenderer() ...
instantiateRenderer(h) == Alloc(h, "renderer")

\* cleanup({ renderer, renderTarget, destroyRenderer })
cleanup(h, r, rt, destroy) ==
  LET h1 == SetRenderTarget(h, r, 0)
      h2 == IF destroy THEN ForceContextLoss(DisposeObject(h1, r), r) ELSE h1
  IN  DisposeObject(h2, rt)

\* ------------------------------------------------------------- renderSDR
\* lines 44-95: pick or create the renderer, allocate the render target and
\* make it the active one.
RenderSDR_Call ==
  /\ pc = "idle"
  /\ calls < MaxCalls
  /\ \E r \in {0, CallerRenderer}, w \in Dims, hgt \in Dims :
       LET h1 == IF r = 0 THEN instantiateRenderer(heap) ELSE heap
           rr == IF r = 0 THEN Len(h1) ELSE r
           h2 == Alloc(h1, "renderTarget")
           rt == Len(h2)
       IN  /\ suppliedRenderer' = r
           /\ width' = w
           /\ height' = hgt
           /\ renderer' = rr
           /\ destroyRenderer' = (r = 0)
           /\ renderTarget' = rt
           /\ heap' = SetRenderTarget(h2, rr, rt)
  /\ calls' = calls + 1
  /\ thrown' = Nothing
  /\ renderError' = Undefined
  /\ out' = Undefined
  /\ outcome' = Running
  /\ log' = <<"setRenderTarget">>
  /\ pc' = "render"
  /\ UNCHANGED notSdrVars

\* lines 97-101: the render succeeds.
RenderSDR_RenderOk ==
  /\ pc = "render"
  /\ log' = Append(log, "render")
  /\ pc' = "check"
  /\ UNCHANGED <<heap, calls, suppliedRenderer, width, height, renderer,
                 destroyRenderer, renderTarget, thrown, renderError, out, outcome>>
  /\ UNCHANGED notSdrVars

\* lines 97-101: the render throws e and the catch clause evaluates `${e}`;
\* when that conversion itself throws, the TypeError leaves renderSDR.
RenderSDR_RenderThrows ==
  /\ pc = "render"
  /\ \E e \in ThrownValues :
       /\ thrown' = e
       /\ IF ToStringThrows(e)
            THEN /\ renderError' = renderError
                 /\ outcome' = [kind |-> "throw", type |-> "TypeError",
                                text |-> "Cannot convert a Symbol value to a string"]
                 /\ pc' = "done"
            ELSE /\ renderError' = JSString(TemplateString(e))
                 /\ outcome' = outcome
                 /\ pc' = "check"
  /\ log' = Append(log, "renderFailed")
  /\ UNCHANGED <<heap, calls, suppliedRenderer, width, height, renderer,
                 destroyRenderer, renderTarget, out>>
  /\ UNCHANGED notSdrVars

\* lines 102-110: if (renderError) { cleanup(...); throw new Error(...) }
RenderSDR_Check ==
  /\ pc = "check"
  /\ IF Truthy(renderError)
       THEN /\ heap' = cleanup(heap, renderer, renderTarget, destroyRenderer)
            /\ log' = Append(log, "cleanup")
            /\ outcome' = [kind |-> "throw", type |-> "Error",
                           text |-> ErrorPrefix \o renderError.text]
            /\ pc' = "done"
       ELSE /\ pc' = "read"
            /\ UNCHANGED <<heap, log, outcome>>
  /\ UNCHANGED <<calls, suppliedRenderer, width, height, renderer,
                 destroyRenderer, renderTarget, thrown, renderError, out>>
  /\ UNCHANGED notSdrVars

\* lines 112-113: allocate the host buffer and read the render target back.
RenderSDR_Read ==
  /\ pc = "read"
  /\ out' = [type |-> "Uint8ClampedArray", text |-> "",
             length |-> width * height * Channels]
  /\ log' = Append(log, "readRenderTargetPixels")
  /\ pc' = "cleanup"
  /\ UNCHANGED <<heap, calls, suppliedRenderer, width, height, renderer,
                 destroyRenderer, renderTarget, thrown, renderError, outcome>>
  /\ UNCHANGED notSdrVars

\* lines 114-115: cleanup and return the buffer.
RenderSDR_Return ==
  /\ pc = "cleanup"
  /\ heap' = cleanup(heap, renderer, renderTarget, destroyRenderer)
  /\ log' = Append(log, "cleanup")
  /\ outcome' = [kind |-> "return", type |-> "Uint8ClampedArray", text |-> ""]
  /\ pc' = "done"
  /\ UNCHANGED <<calls, suppliedRenderer, width, height, renderer,
                 destroyRenderer, renderTarget, thrown, renderError, out>>
  /\ UNCHANGED notSdrVars

\* The caller takes the result; the call's locals are gone.
RenderSDR_Next ==
  /\ pc = "done"
  /\ pc' = "idle"
  /\ suppliedRenderer' = 0
  /\ width' = 1
  /\ height' = 1
  /\ renderer' = 0
  /\ destroyRenderer' = FALSE
  /\ renderTarget' = 0
  /\ thrown' = Nothing
  /\ renderError' = Undefined
  /\ out' = Undefined
  /\ outcome' = NoOutcome
  /\ log' = <<>>
  /\ UNCHANGED <<heap, calls>>
  /\ UNCHANGED notSdrVars

\* ------------------------------------------------- QuadRenderer (a pass)
\* A full-screen pass: its output surface, its execution context and whether
\* it owns that context (it does when it was constructed without one).
NoPass ==
  [renderTarget |-> 0, renderer |-> 0, rendererIsDisposable |-> FALSE,
   width |-> 0, height |-> 0, disposeCalls |-> 0, renders |-> 0, output |-> 0]

\* new QuadRenderer(width, height, type, colorSpace, material, renderer): the
\* heap after construction ...
QuadRenderer_heap(h, r) ==
  Alloc(IF r = 0 THEN Alloc(h, "renderer") ELSE h, "renderTarget")

\* ... and the pass constructed.
QuadRenderer_new(h, w, hgt, r) ==
  [renderTarget |-> Len(QuadRenderer_heap(h, r)),
   renderer |-> IF r = 0 THEN Len(h) + 1 ELSE r,
   rendererIsDisposable |-> (r = 0),
   width |-> w, height |-> hgt, disposeCalls |-> 0, renders |-> 0, output |-> 0]

\* render(): regenerates the output surface in place from the material's
\* current parameters (here: the parameter value p).
QuadRenderer_render(q, p) == [q EXCEPT !.renders = @ + 1, !.output = p]

\* dispose(): releases the output surface and an owned execution context;
\* a second call is a no-op.
QuadRenderer_dispose(h, q) ==
  IF q.disposeCalls > 0 THEN h
  ELSE LET h1 == DisposeObject(h, q.renderTarget)
       IN  IF q.rendererIsDisposable
             THEN ForceContextLoss(DisposeObject(h1, q.renderer), q.renderer)
             ELSE h1

\* ... and the pass after dispose() was called on it.
QuadRenderer_disposed(q) == [q EXCEPT !.disposeCalls = @ + 1]

\* ---------------------------------------------------------------- decode
Image(w, hgt) == [width |-> w, height |-> hgt]

NoParams ==
  [sdr |-> Image(1, 1), gainMap |-> Image(1, 1), renderer |-> 0,
   maxDisplayBoost |-> 1]

DecodeParameters ==
  [sdr : {Image(w, hgt) : w \in Dims, hgt \in Dims},
   gainMap : {Image(w, hgt) : w \in Dims, hgt \in Dims},
   renderer : {0, CallerRenderer},
   maxDisplayBoost : 1..MaxBoost]

\* lines 53-67: the two textures, the material and the pass are created; the
\* pass takes the SDR image's size and the caller's renderer, if any.
Decode_Call ==
  /\ dpc = "idle"
  /\ calls < MaxCalls
  /\ \E params \in DecodeParameters :
       LET h1 == Alloc(Alloc(Alloc(heap, "texture"), "texture"), "material")
       IN  /\ decodeParams' = params
           /\ sdrTexture' = Len(heap) + 1
           /\ gainMapTexture' = Len(heap) + 2
           /\ material' = Len(heap) + 3
           /\ maxDisplayBoost' = params.maxDisplayBoost
           /\ quadRenderer' = QuadRenderer_new(h1, params.sdr.width,
                                               params.sdr.height, params.renderer)
           /\ heap' = QuadRenderer_heap(h1, params.renderer)
  /\ calls' = calls + 1
  /\ decodeThrown' = Nothing
  /\ decodeOutcome' = Running
  /\ dpc' = "render"
  /\ UNCHANGED notDecVars

\* line 67: the construction of the pass fails (the backend cannot produce
\* the half-float output format); nothing was rendered or caught.
Decode_CallUnsupported ==
  /\ dpc = "idle"
  /\ calls < MaxCalls
  /\ \E params \in DecodeParameters :
       /\ decodeParams' = params
       /\ maxDisplayBoost' = params.maxDisplayBoost
  /\ sdrTexture' = Len(heap) + 1
  /\ gainMapTexture' = Len(heap) + 2
  /\ material' = Len(heap) + 3
  /\ heap' = Alloc(Alloc(Alloc(heap, "texture"), "texture"), "material")
  /\ quadRenderer' = NoPass
  /\ calls' = calls + 1
  /\ decodeThrown' = Nothing
  /\ decodeOutcome' = [kind |-> "throw", type |-> "UnsupportedFormatError", text |-> ""]
  /\ dpc' = "done"
  /\ UNCHANGED notDecVars

\* A decode that releases its inputs in a `finally` rather than a `catch`.
Decode_RenderOk_Finally ==
  /\ dpc = "render"
  /\ quadRenderer' = QuadRenderer_render(quadRenderer, maxDisplayBoost)
  /\ decodeOutcome' = [kind |-> "return", type |-> "QuadRenderer", text |-> ""]
  /\ heap' = DisposeObject(DisposeObject(DisposeObject(DisposeObject(heap,
                sdrTexture), gainMapTexture), material), quadRenderer.renderTarget)
  /\ dpc' = "returned"
  /\ UNCHANGED <<calls, decodeParams, sdrTexture, gainMapTexture,
                 material, maxDisplayBoost, decodeThrown>>
  /\ UNCHANGED notDecVars

\* lines 69-70, 79: render() succeeds and decode returns the pass.
Decode_RenderOk ==
  /\ dpc = "render"
  /\ quadRenderer' = QuadRenderer_render(quadRenderer, maxDisplayBoost)
  /\ decodeOutcome' = [kind |-> "return", type |-> "QuadRenderer", text |-> ""]
  /\ dpc' = "returned"
  /\ UNCHANGED <<heap, calls, decodeParams, sdrTexture, gainMapTexture,
                 material, maxDisplayBoost, decodeThrown>>
  /\ UNCHANGED notDecVars

\* lines 71-77: render() throws e; the catch clause disposes the textures,
\* the material and the render target and rethrows e.
Decode_RenderThrows ==
  /\ dpc = "render"
  /\ \E e \in ThrownValues :
       /\ decodeThrown' = e
       /\ decodeOutcome' = [kind |-> "throw", type |-> e.type, text |-> e.text]
  /\ heap' = DisposeObject(DisposeObject(DisposeObject(DisposeObject(heap,
                sdrTexture), gainMapTexture), material), quadRenderer.renderTarget)
  /\ dpc' = "done"
  /\ UNCHANGED <<calls, decodeParams, sdrTexture, gainMapTexture, material,
                 maxDisplayBoost, quadRenderer>>
  /\ UNCHANGED notDecVars

\* The caller changes maxDisplayBoost on the returned pass's material.
Decode_SetMaxDisplayBoost ==
  /\ dpc = "returned"
  /\ \E b \in 1..MaxBoost :
       /\ b /= maxDisplayBoost
       /\ maxDisplayBoost' = b
  /\ UNCHANGED <<heap, calls, dpc, decodeParams, sdrTexture, gainMapTexture,
                 material, quadRenderer, decodeThrown, decodeOutcome>>
  /\ UNCHANGED notDecVars

\* The caller invokes render() again on the returned pass.
Decode_Rerender ==
  /\ dpc = "returned"
  /\ quadRenderer.renders < MaxRenders
  /\ quadRenderer' = QuadRenderer_render(quadRenderer, maxDisplayBoost)
  /\ UNCHANGED <<heap, calls, dpc, decodeParams, sdrTexture, gainMapTexture,
                 material, maxDisplayBoost, decodeThrown, decodeOutcome>>
  /\ UNCHANGED notDecVars

\* The caller disposes the returned pass when it is done with it.
Decode_Dispose ==
  /\ dpc = "returned"
  /\ heap' = QuadRenderer_dispose(heap, quadRenderer)
  /\ quadRenderer' = QuadRenderer_disposed(quadRenderer)
  /\ dpc' = "disposed"
  /\ UNCHANGED <<calls, decodeParams, sdrTexture, gainMapTexture, material,
                 maxDisplayBoost, decodeThrown, decodeOutcome>>
  /\ UNCHANGED notDecVars

\* The caller is done with this call; its locals are gone.
Decode_Next ==
  /\ dpc \in {"done", "disposed"}
  /\ dpc' = "idle"
  /\ decodeParams' = NoParams
  /\ sdrTexture' = 0
  /\ gainMapTexture' = 0
  /\ material' = 0
  /\ maxDisplayBoost' = 1
  /\ quadRenderer' = NoPass
  /\ decodeThrown' = Nothing
  /\ decodeOutcome' = NoOutcome
  /\ UNCHANGED <<heap, calls>>
  /\ UNCHANGED notDecVars

\* ---------------------------------------------------------------- encode
Fields ==
  {"gainMapMax", "gainMapMin", "gamma", "hdrCapacityMax", "hdrCapacityMin",
   "offsetHdr", "offsetSdr"}

ParamValues == 1..MaxParam

\* The gain-map pass's material is the first JS object of a call.
MaterialObj == 1

\* The material getGainMap builds from the encoding parameters.
NewMaterial == [f \in Fields |-> 1]

NoEncodeParams ==
  [renderer |-> 0, withWorker |-> FALSE, fn |-> "encode", image |-> Image(1, 1)]

EncodingParameters ==
  { q \in [renderer : {0, CallerRenderer}, withWorker : BOOLEAN,
           fn : {"encode", "encodeAndCompress"},
           image : {Image(d, d) : d \in Dims}] :
      q.withWorker => q.fn = "encodeAndCompress" }

NoData == [of |-> "none", width |-> 0, height |-> 0, length |-> 0]

NoImage == [of |-> "none", source |-> NoData]

NoResult ==
  [sdr |-> NoImage, gainMap |-> NoImage, rawSDR |-> NoData,
   rawGainMap |-> NoData, meta |-> 0]

\* A renderer in place of the SDR pass's one: the caller's `renderer` param.
GainMapRendererArg_Params(params, sdrPass) == params.renderer

\* line 68: renderer: sdr.renderer
GainMapRendererArg(params, sdrPass) == sdrPass.renderer

\* lines 57-62: getSDRRendition constructs the SDR pass with the caller's
\* renderer, if any, and enters its render().
Encode_Call ==
  /\ epc = "idle"
  /\ calls < MaxCalls
  /\ \E params \in EncodingParameters :
       /\ encodeParams' = params
       /\ sdr' = QuadRenderer_new(heap, params.image.width, params.image.height,
                                  params.renderer)
       /\ heap' = QuadRenderer_heap(heap, params.renderer)
  /\ calls' = calls + 1
  /\ rendering' = {"sdr"}
  /\ encodeOutcome' = Running
  /\ epc' = "sdrRender"
  /\ UNCHANGED <<gainMapRenderer, objects, changes, snapshots, sdrImageData,
                 gainMapImageData, tasks, completionOrder, compressResult,
                 rawSDR, rawGainMap, result>>
  /\ UNCHANGED notEncVars

\* line 62: the SDR render succeeds and getSDRRendition returns the pass.
Encode_SDRRenderOk ==
  /\ epc = "sdrRender"
  /\ sdr' = QuadRenderer_render(sdr, 1)
  /\ rendering' = {}
  /\ epc' = "getGainMap"
  /\ UNCHANGED <<heap, calls, encodeParams, gainMapRenderer, objects, changes,
                 snapshots, sdrImageData, gainMapImageData, tasks,
                 completionOrder, compressResult, rawSDR, rawGainMap, result,
                 encodeOutcome>>
  /\ UNCHANGED notEncVars

\* line 62: the SDR render throws; getSDRRendition releases its pass and
\* rethrows, and encode lets the error through.
Encode_SDRRenderThrows ==
  /\ epc = "sdrRender"
  /\ \E e \in ThrownValues :
       encodeOutcome' = [kind |-> "throw", type |-> e.type, text |-> e.text]
  /\ heap' = QuadRenderer_dispose(heap, sdr)
  /\ sdr' = QuadRenderer_disposed(sdr)
  /\ rendering' = {}
  /\ epc' = "done"
  /\ UNCHANGED <<calls, encodeParams, gainMapRenderer, objects, changes,
                 snapshots, sdrImageData, gainMapImageData, tasks,
                 completionOrder, compressResult, rawSDR, rawGainMap, result>>
  /\ UNCHANGED notEncVars

\* lines 64-69: getGainMap constructs the gain-map pass on the renderer it is
\* given, builds its material and enters its render().
Encode_GetGainMap ==
  /\ epc = "getGainMap"
  /\ LET r == GainMapRendererArg(encodeParams, sdr)
     IN  /\ gainMapRenderer' = QuadRenderer_new(heap, sdr.width, sdr.height, r)
         /\ heap' = QuadRenderer_heap(heap, r)
  /\ objects' = <<NewMaterial>>
  /\ rendering' = rendering \cup {"gainMap"}
  /\ epc' = "gainMapRender"
  /\ UNCHANGED <<calls, encodeParams, sdr, changes, snapshots, sdrImageData,
                 gainMapImageData, tasks, completionOrder, compressResult,
                 rawSDR, rawGainMap, result, encodeOutcome>>
  /\ UNCHANGED notEncVars

\* lines 64-88: the gain-map render succeeds and encode returns its result
\* (to the caller, or to encodeAndCompress at line 136).
Encode_GainMapRenderOk ==
  /\ epc = "gainMapRender"
  /\ gainMapRenderer' = QuadRenderer_render(gainMapRenderer, objects[MaterialObj].gamma)
  /\ rendering' = rendering \ {"gainMap"}
  /\ IF encodeParams.fn = "encode"
       THEN /\ epc' = "returned"
            /\ encodeOutcome' = [kind |-> "return", type |-> "EncodingResult", text |-> ""]
       ELSE /\ epc' = "toArray"
            /\ encodeOutcome' = encodeOutcome
  /\ UNCHANGED <<heap, calls, encodeParams, sdr, objects, changes, snapshots,
                 sdrImageData, gainMapImageData, tasks, completionOrder,
                 compressResult, rawSDR, rawGainMap, result>>
  /\ UNCHANGED notEncVars

\* lines 64-69: the gain-map render throws; getGainMap releases its pass and
\* rethrows, and encode lets the error through.
Encode_GainMapRenderThrows ==
  /\ epc = "gainMapRender"
  /\ \E e \in ThrownValues :
       encodeOutcome' = [kind |-> "throw", type |-> e.type, text |-> e.text]
  /\ heap' = QuadRenderer_dispose(heap, gainMapRenderer)
  /\ gainMapRenderer' = QuadRenderer_disposed(gainMapRenderer)
  /\ rendering' = rendering \ {"gainMap"}
  /\ epc' = "done"
  /\ UNCHANGED <<calls, encodeParams, sdr, objects, changes, snapshots,
                 sdrImageData, gainMapImageData, tasks, completionOrder,
                 compressResult, rawSDR, rawGainMap, result>>
  /\ UNCHANGED notEncVars

\* A getMetadata that hands out the material itself instead of a record.
getMetadata_Live(objs) == [objects |-> objs, meta |-> MaterialObj]

\* lines 75-86: getMetadata builds a new record from the material's seven
\* current values and returns it.
getMetadata(objs) ==
  [objects |-> Append(objs,
       [gainMapMax |-> objs[MaterialObj].gainMapMax,
        gainMapMin |-> objs[MaterialObj].gainMapMin,
        gamma |-> objs[MaterialObj].gamma,
        hdrCapacityMax |-> objs[MaterialObj].hdrCapacityMax,
        hdrCapacityMin |-> objs[MaterialObj].hdrCapacityMin,
        offsetHdr |-> objs[MaterialObj].offsetHdr,
        offsetSdr |-> objs[MaterialObj].offsetSdr]),
   meta |-> Len(objs) + 1]

\* encode.ts:43-48: the caller assigns a new value to a material parameter.
Caller_SetParameter ==
  /\ epc = "returned"
  /\ changes < MaxChanges
  /\ \E f \in Fields, v \in ParamValues :
       /\ v /= objects[MaterialObj][f]
       /\ objects' = [objects EXCEPT ![MaterialObj][f] = v]
  /\ changes' = changes + 1
  /\ UNCHANGED <<heap, calls, epc, encodeParams, sdr, gainMapRenderer,
                 rendering, snapshots, sdrImageData, gainMapImageData, tasks,
                 completionOrder, compressResult, rawSDR, rawGainMap, result,
                 encodeOutcome>>
  /\ UNCHANGED notEncVars

\* encode.ts:48: encodingResult.gainMap.render()
Caller_Rerender ==
  /\ epc = "returned"
  /\ gainMapRenderer.renders < MaxRenders
  /\ gainMapRenderer' = QuadRenderer_render(gainMapRenderer, objects[MaterialObj].gamma)
  /\ UNCHANGED <<heap, calls, epc, encodeParams, sdr, rendering, objects,
                 changes, snapshots, sdrImageData, gainMapImageData, tasks,
                 completionOrder, compressResult, rawSDR, rawGainMap, result,
                 encodeOutcome>>
  /\ UNCHANGED notEncVars

\* The caller calls encodingResult.getMetadata() and keeps the record.
Caller_GetMetadata ==
  /\ epc = "returned"
  /\ Len(snapshots) < MaxSnapshots
  /\ objects' = getMetadata(objects).objects
  /\ snapshots' = Append(snapshots, getMetadata(objects).meta)
  /\ UNCHANGED <<heap, calls, epc, encodeParams, sdr, gainMapRenderer,
                 rendering, changes, sdrImageData, gainMapImageData, tasks,
                 completionOrder, compressResult, rawSDR, rawGainMap, result,
                 encodeOutcome>>
  /\ UNCHANGED notEncVars

\* encode.ts:50-52: the caller disposes both passes of the result.
Caller_Dispose ==
  /\ epc = "returned"
  /\ heap' = QuadRenderer_dispose(QuadRenderer_dispose(heap, sdr), gainMapRenderer)
  /\ sdr' = QuadRenderer_disposed(sdr)
  /\ gainMapRenderer' = QuadRenderer_disposed(gainMapRenderer)
  /\ epc' = "done"
  /\ UNCHANGED <<calls, encodeParams, rendering, objects, changes, snapshots,
                 sdrImageData, gainMapImageData, tasks, completionOrder,
                 compressResult, rawSDR, rawGainMap, result, encodeOutcome>>
  /\ UNCHANGED notEncVars

\* ----------------------------------------------------- encodeAndCompress
\* pass.toArray(): the pass's output surface read out into a host buffer.
toArray(name, q) ==
  [of |-> name, width |-> q.width, height |-> q.height,
   length |-> q.width * q.height * Channels]

\* compress({ source, ... }) / withWorker.compress({ source, ... }) once it
\* resolves: the compressed image of its source; a worker hands the raw
\* source buffer back with it.
Compressed(t) ==
  [of |-> t.source.of, source |-> IF t.worker THEN t.source ELSE NoData]

\* A gathering of the results in the order the promises completed.
PromiseAll_CompletionOrder(t, order) ==
  [i \in 1..Len(t) |-> Compressed(t[order[i]])]

\* await Promise.all([a, b]): the results, in the order of the array.
PromiseAll(t, order) == [i \in 1..Len(t) |-> Compressed(t[i])]

\* line 145: the SDR pass is read out.
EAC_ReadSDR ==
  /\ epc = "toArray"
  /\ sdrImageData' = toArray("sdr", sdr)
  /\ epc' = "toArray2"
  /\ UNCHANGED <<heap, calls, encodeParams, sdr, gainMapRenderer, rendering,
                 objects, changes, snapshots, gainMapImageData, tasks,
                 completionOrder, compressResult, rawSDR, rawGainMap, result,
                 encodeOutcome>>
  /\ UNCHANGED notEncVars

\* line 146: the gain-map pass is read out.
EAC_ReadGainMap ==
  /\ epc = "toArray2"
  /\ gainMapImageData' = toArray("gainMap", gainMapRenderer)
  /\ epc' = "dispatch"
  /\ UNCHANGED <<heap, calls, encodeParams, sdr, gainMapRenderer, rendering,
                 objects, changes, snapshots, sdrImageData, tasks,
                 completionOrder, compressResult, rawSDR, rawGainMap, result,
                 encodeOutcome>>
  /\ UNCHANGED notEncVars

\* lines 145-146: a read-out throws; the promise rejects at once.
EAC_ReadThrows ==
  /\ epc \in {"toArray", "toArray2"}
  /\ \E e \in ThrownValues :
       encodeOutcome' = [kind |-> "throw", type |-> e.type, text |-> e.text]
  /\ epc' = "done"
  /\ UNCHANGED <<heap, calls, encodeParams, sdr, gainMapRenderer, rendering,
                 objects, changes, snapshots, sdrImageData, gainMapImageData,
                 tasks, completionOrder, compressResult, rawSDR, rawGainMap,
                 result>>
  /\ UNCHANGED notEncVars

\* lines 148-180: both compressions are started, the SDR one first, and
\* encodeAndCompress awaits Promise.all of them.
EAC_Dispatch ==
  /\ epc = "dispatch"
  /\ tasks' = <<[state |-> "pending", source |-> sdrImageData,
                 worker |-> encodeParams.withWorker],
                [state |-> "pending", source |-> gainMapImageData,
                 worker |-> encodeParams.withWorker]>>
  /\ completionOrder' = <<>>
  /\ epc' = "await"
  /\ UNCHANGED <<heap, calls, encodeParams, sdr, gainMapRenderer, rendering,
                 objects, changes, snapshots, sdrImageData, gainMapImageData,
                 compressResult, rawSDR, rawGainMap, result, encodeOutcome>>
  /\ UNCHANGED notEncVars

\* One of the compressions resolves.
EAC_Complete ==
  /\ epc = "await"
  /\ \E i \in 1..Len(tasks) :
       /\ tasks[i].state = "pending"
       /\ tasks' = [tasks EXCEPT ![i].state = "resolved"]
       /\ completionOrder' = Append(completionOrder, i)
  /\ UNCHANGED <<heap, calls, epc, encodeParams, sdr, gainMapRenderer,
                 rendering, objects, changes, snapshots, sdrImageData,
                 gainMapImageData, compressResult, rawSDR, rawGainMap, result,
                 encodeOutcome>>
  /\ UNCHANGED notEncVars

\* One of the compressions rejects: Promise.all rejects, and with it the
\* await at line 149 / 167 throws out of encodeAndCompress.
EAC_Reject ==
  /\ epc = "await"
  /\ \E i \in 1..Len(tasks), e \in ThrownValues :
       /\ tasks[i].state = "pending"
       /\ tasks' = [tasks EXCEPT ![i].state = "rejected"]
       /\ encodeOutcome' = [kind |-> "throw", type |-> e.type, text |-> e.text]
  /\ epc' = "done"
  /\ UNCHANGED <<heap, calls, encodeParams, sdr, gainMapRenderer, rendering,
                 objects, changes, snapshots, sdrImageData, gainMapImageData,
                 completionOrder, compressResult, rawSDR, rawGainMap, result>>
  /\ UNCHANGED notEncVars

\* lines 163-165 / 181-182: both have resolved; the await returns.
EAC_Resume ==
  /\ epc = "await"
  /\ \A i \in 1..Len(tasks) : tasks[i].state = "resolved"
  /\ LET r == PromiseAll(tasks, completionOrder)
     IN  /\ compressResult' = r
         /\ rawSDR' = IF encodeParams.withWorker THEN r[1].source ELSE sdrImageData
         /\ rawGainMap' = IF encodeParams.withWorker THEN r[2].source
                          ELSE gainMapImageData
  /\ epc' = "disposeSdr"
  /\ UNCHANGED <<heap, calls, encodeParams, sdr, gainMapRenderer, rendering,
                 objects, changes, snapshots, sdrImageData, gainMapImageData,
                 tasks, completionOrder, result, encodeOutcome>>
  /\ UNCHANGED notEncVars

\* line 185: encodingResult.sdr.dispose()
EAC_DisposeSDR ==
  /\ epc = "disposeSdr"
  /\ heap' = QuadRenderer_dispose(heap, sdr)
  /\ sdr' = QuadRenderer_disposed(sdr)
  /\ epc' = "disposeGainMap"
  /\ UNCHANGED <<calls, encodeParams, gainMapRenderer, rendering, objects,
                 changes, snapshots, sdrImageData, gainMapImageData, tasks,
                 completionOrder, compressResult, rawSDR, rawGainMap, result,
                 encodeOutcome>>
  /\ UNCHANGED notEncVars

\* A slip: the SDR pass is disposed a second time, the gain-map pass never.
EAC_DisposeGainMap_WrongPass ==
  /\ epc = "disposeGainMap"
  /\ heap' = QuadRenderer_dispose(heap, sdr)
  /\ sdr' = QuadRenderer_disposed(sdr)
  /\ epc' = "return"
  /\ UNCHANGED <<calls, encodeParams, gainMapRenderer, rendering, objects,
                 changes, snapshots, sdrImageData, gainMapImageData, tasks,
                 completionOrder, compressResult, rawSDR, rawGainMap, result,
                 encodeOutcome>>
  /\ UNCHANGED notEncVars

\* line 186: encodingResult.gainMap.dispose()
EAC_DisposeGainMap ==
  /\ epc = "disposeGainMap"
  /\ heap' = QuadRenderer_dispose(heap, gainMapRenderer)
  /\ gainMapRenderer' = QuadRenderer_disposed(gainMapRenderer)
  /\ epc' = "return"
  /\ UNCHANGED <<calls, encodeParams, sdr, rendering, objects, changes,
                 snapshots, sdrImageData, gainMapImageData, tasks,
                 completionOrder, compressResult, rawSDR, rawGainMap, result,
                 encodeOutcome>>
  /\ UNCHANGED notEncVars

\* lines 188-195: the promise resolves with the compressed images, the raw
\* buffers and the metadata.
EAC_Return ==
  /\ epc = "return"
  /\ objects' = getMetadata(objects).objects
  /\ result' = [sdr |-> compressResult[1], gainMap |-> compressResult[2],
                rawSDR |-> rawSDR, rawGainMap |-> rawGainMap,
                meta |-> getMetadata(objects).meta]
  /\ encodeOutcome' = [kind |-> "return", type |-> "EncodingResult", text |-> ""]
  /\ epc' = "resolved"
  /\ UNCHANGED <<heap, calls, encodeParams, sdr, gainMapRenderer, rendering,
                 changes, snapshots, sdrImageData, gainMapImageData, tasks,
                 completionOrder, compressResult, rawSDR, rawGainMap>>
  /\ UNCHANGED notEncVars

\* The caller is done with this call; its locals and its result are gone.
Encode_Next ==
  /\ epc \in {"done", "resolved"}
  /\ epc' = "idle"
  /\ encodeParams' = NoEncodeParams
  /\ sdr' = NoPass
  /\ gainMapRenderer' = NoPass
  /\ rendering' = {}
  /\ objects' = <<>>
  /\ changes' = 0
  /\ snapshots' = <<>>
  /\ sdrImageData' = NoData
  /\ gainMapImageData' = NoData
  /\ tasks' = <<>>
  /\ completionOrder' = <<>>
  /\ compressResult' = <<>>
  /\ rawSDR' = NoData
  /\ rawGainMap' = NoData
  /\ result' = NoResult
  /\ encodeOutcome' = NoOutcome
  /\ UNCHANGED <<heap, calls>>
  /\ UNCHANGED notEncVars

Init ==
  /\ heap = <<NewObject("renderer")>>
  /\ calls = 0
  /\ pc = "idle"
  /\ suppliedRenderer = 0
  /\ width = 1
  /\ height = 1
  /\ renderer = 0
  /\ destroyRenderer = FALSE
  /\ renderTarget = 0
  /\ thrown = Nothing
  /\ renderError = Undefined
  /\ out = Undefined
  /\ outcome = NoOutcome
  /\ log = <<>>
  /\ dpc = "idle"
  /\ decodeParams = NoParams
  /\ sdrTexture = 0
  /\ gainMapTexture = 0
  /\ material = 0
  /\ maxDisplayBoost = 1
  /\ quadRenderer = NoPass
  /\ decodeThrown = Nothing
  /\ decodeOutcome = NoOutcome
  /\ epc = "idle"
  /\ encodeParams = NoEncodeParams
  /\ sdr = NoPass
  /\ gainMapRenderer = NoPass
  /\ rendering = {}
  /\ objects = <<>>
  /\ changes = 0
  /\ snapshots = <<>>
  /\ sdrImageData = NoData
  /\ gainMapImageData = NoData
  /\ tasks = <<>>
  /\ completionOrder = <<>>
  /\ compressResult = <<>>
  /\ rawSDR = NoData
  /\ rawGainMap = NoData
  /\ result = NoResult
  /\ encodeOutcome = NoOutcome

NextRenderSDR ==
  \/ RenderSDR_Call
  \/ RenderSDR_RenderOk
  \/ RenderSDR_RenderThrows
  \/ RenderSDR_Check
  \/ RenderSDR_Read
  \/ RenderSDR_Return
  \/ RenderSDR_Next

SpecRenderSDR == Init /\ [][NextRenderSDR]_vars

NextDecode ==
  \/ Decode_Call
  \/ Decode_CallUnsupported
  \/ Decode_RenderOk
  \/ Decode_RenderThrows
  \/ Decode_SetMaxDisplayBoost
  \/ Decode_Rerender
  \/ Decode_Dispose
  \/ Decode_Next

SpecDecode == Init /\ [][NextDecode]_vars

NextEncode ==
  \/ Encode_Call
  \/ Encode_SDRRenderOk
  \/ Encode_SDRRenderThrows
  \/ Encode_GetGainMap
  \/ Encode_GainMapRenderOk
  \/ Encode_GainMapRenderThrows
  \/ Caller_SetParameter
  \/ Caller_Rerender
  \/ Caller_GetMetadata
  \/ Caller_Dispose
  \/ EAC_ReadSDR
  \/ EAC_ReadGainMap
  \/ EAC_ReadThrows
  \/ EAC_Dispatch
  \/ EAC_Complete
  \/ EAC_Reject
  \/ EAC_Resume
  \/ EAC_DisposeSDR
  \/ EAC_DisposeGainMap
  \/ EAC_Return
  \/ Encode_Next

SpecEncode == Init /\ [][NextEncode]_vars

\* ---------------------------------------------------- renderSDR: claims
HasSuffix(s, t) == Len(t) <= Len(s) /\ SubSeq(s, Len(s) - Len(t) + 1, Len(s)) = t

RenderFailed == thrown /= Nothing

\* C1: whatever the backend throws during the render, renderSDR throws an
\* Error whose message carries the backend's diagnostic text and returns no
\* pixel buffer.  (The statement of the claim; the code violates it.)
C1_RenderErrorAlwaysThrown ==
  (pc = "done" /\ RenderFailed) =>
     /\ outcome.kind = "throw"
     /\ outcome.type = "Error"
     /\ TemplateString(thrown) /= ""
     /\ HasSuffix(outcome.text, TemplateString(thrown))
     /\ out.type = "undefined"

\* C2: when the render failed and an error reaches the caller, the render
\* target is disposed, the renderer's active target is none and a renderer
\* that renderSDR created is disposed and its context lost.  (The statement
\* of the claim; the code violates it.)
C2_FailureReleasesEverything ==
  (pc = "done" /\ RenderFailed /\ outcome.kind = "throw") =>
     /\ heap[renderTarget].disposed >= 1
     /\ heap[renderer].target = 0
     /\ destroyRenderer =>
          (heap[renderer].disposed >= 1 /\ heap[renderer].contextLost >= 1)

\* C3: a renderer supplied by the caller is never disposed nor context-lost,
\* and when a call has ended, by returning or after a failed render, the
\* renderer it instantiated is disposed exactly once and its render target
\* released.  (The statement of the claim; the code violates it.)
C3_DestroysRendererIffCreated ==
  /\ heap[CallerRenderer].disposed = 0
  /\ heap[CallerRenderer].contextLost = 0
  /\ pc = "done" =>
       /\ heap[renderTarget].disposed = 1
       /\ destroyRenderer = (suppliedRenderer = 0)
       /\ destroyRenderer =>
            (heap[renderer].disposed = 1 /\ heap[renderer].contextLost = 1)

\* ------------------------------------------------------- decode: claims
Released(o) == heap[o].disposed >= 1

DecodeRenderFailed == dpc = "done" /\ decodeThrown /= Nothing

\* C4: when render() fails inside decode, the SDR texture, the gain-map
\* texture, the material, the output surface and a renderer the pass created
\* for itself are all released when the error reaches the caller.  (The
\* statement of the claim; the code violates it.)
C4_DecodeFailureReleasesEverything ==
  DecodeRenderFailed =>
     /\ Released(sdrTexture)
     /\ Released(gainMapTexture)
     /\ Released(material)
     /\ Released(quadRenderer.renderTarget)
     /\ quadRenderer.rendererIsDisposable => Released(quadRenderer.renderer)

\* C5: decode called with a gain-map image whose size differs from the SDR
\* image's fails with DimensionMismatchError, without an output surface.
\* (The statement of the claim; the code violates it.)
C5_DimensionMismatchRejected ==
  (dpc /= "idle" /\ decodeParams.gainMap /= decodeParams.sdr) =>
     /\ decodeOutcome.kind = "throw"
     /\ decodeOutcome.type = "DimensionMismatchError"
     /\ quadRenderer = NoPass
     /\ quadRenderer.renders = 0

\* C8: while the caller holds the pass that decode returned, through every
\* change of maxDisplayBoost and every re-render, none of the SDR texture, the
\* gain-map texture, the material and the output surface is disposed; and
\* decode itself has disposed any of them only if its render() threw.
C8_SuccessKeepsResources ==
  /\ dpc = "returned" =>
       /\ heap[sdrTexture].disposed = 0
       /\ heap[gainMapTexture].disposed = 0
       /\ heap[material].disposed = 0
       /\ heap[quadRenderer.renderTarget].disposed = 0
  /\ (dpc \in {"render", "returned", "done"}
        /\ (Released(sdrTexture) \/ Released(gainMapTexture) \/ Released(material)
              \/ (quadRenderer /= NoPass /\ Released(quadRenderer.renderTarget)))) =>
       (decodeThrown /= Nothing /\ decodeOutcome.kind = "throw")

\* C8 witness: the returned pass was re-rendered twice and its output now
\* reflects a boost other than the one decode was called with.
C8_Witness ==
  /\ dpc = "returned"
  /\ quadRenderer.renders >= 3
  /\ quadRenderer.output /= decodeParams.maxDisplayBoost
  /\ heap[quadRenderer.renderTarget].disposed = 0

\* ------------------------------------------------------- encode: claims
\* C6: a record that getMetadata() returned keeps its seven field values
\* through every later parameter change on the material and every re-render,
\* for as long as the result lives.
C6_MetadataIsSnapshot ==
  [][epc' /= "idle" =>
       \A i \in 1..Len(snapshots) :
          /\ snapshots'[i] = snapshots[i]
          /\ objects'[snapshots[i]] = objects[snapshots[i]]]_vars

\* C6 witness: a record was returned, a parameter was changed afterwards (the
\* material no longer agrees with the record) and the pass re-rendered.
C6_Witness ==
  /\ epc = "returned"
  /\ Len(snapshots) >= 1
  /\ \E f \in Fields : objects[snapshots[1]][f] /= objects[MaterialObj][f]
  /\ gainMapRenderer.renders >= 2

BothReadOut == sdrImageData.of = "sdr" /\ gainMapImageData.of = "gainMap"

BothCompressed ==
  Len(tasks) = 2 /\ \A i \in 1..2 : tasks[i].state = "resolved"

\* C7: when encodeAndCompress resolves, each pass has been disposed exactly
\* once and its surface released once; no pass is disposed before both
\* read-outs and both compressions are complete; the context the two passes
\* share is released exactly once when encode created it and never when the
\* caller supplied it.
C7_DisposedOnceAfterCompression ==
  /\ epc = "resolved" =>
       /\ sdr.disposeCalls = 1
       /\ gainMapRenderer.disposeCalls = 1
       /\ heap[sdr.renderTarget].disposed = 1
       /\ heap[gainMapRenderer.renderTarget].disposed = 1
       /\ gainMapRenderer.renderer = sdr.renderer
       /\ IF encodeParams.renderer = 0
            THEN /\ heap[sdr.renderer].disposed = 1
                 /\ heap[sdr.renderer].contextLost = 1
            ELSE /\ sdr.renderer = encodeParams.renderer
                 /\ heap[sdr.renderer].disposed = 0
                 /\ heap[sdr.renderer].contextLost = 0
  /\ (encodeParams.fn = "encodeAndCompress" /\ epc \notin {"idle", "done"}
        /\ (sdr.disposeCalls > 0 \/ gainMapRenderer.disposeCalls > 0)) =>
       (BothReadOut /\ BothCompressed)

\* C7 witness: encodeAndCompress resolved after creating its own renderer.
C7_Witness ==
  /\ epc = "resolved"
  /\ encodeParams.renderer = 0
  /\ heap[sdr.renderer].disposed = 1

\* C9: a compression is dispatched only when both buffers have been read
\* out, and whatever the order in which the two complete, with or without a
\* worker, sdr / rawSDR of the result come from the SDR pass and gainMap /
\* rawGainMap from the gain-map pass.
C9_PairingIndependentOfOrder ==
  /\ Len(tasks) > 0 => (Len(tasks) = 2 /\ BothReadOut)
  /\ epc = "resolved" =>
       /\ result.sdr.of = "sdr"
       /\ result.rawSDR.of = "sdr"
       /\ result.gainMap.of = "gainMap"
       /\ result.rawGainMap.of = "gainMap"

\* C9 witness: with a worker, the gain-map compression completed first.
C9_Witness ==
  /\ epc = "resolved"
  /\ encodeParams.withWorker
  /\ completionOrder = <<2, 1>>

\* C10: the gain-map pass is constructed on the very context of the SDR pass
\* and does not own it, also when the caller supplied none; it is constructed
\* only after the SDR rendition was rendered; and at most one pass is inside
\* render() at any time.
C10_SharedContextSerialized ==
  /\ gainMapRenderer /= NoPass =>
       /\ gainMapRenderer.renderer = sdr.renderer
       /\ ~gainMapRenderer.rendererIsDisposable
       /\ sdr.renders >= 1
       /\ sdr.rendererIsDisposable = (encodeParams.renderer = 0)
  /\ Cardinality(rendering) <= 1
  /\ "gainMap" \in rendering => (sdr.renders >= 1 /\ "sdr" \notin rendering)

\* C10 witness: the gain-map pass is rendering on the context that the SDR
\* pass created because the caller supplied none.
C10_Witness ==
  /\ "gainMap" \in rendering
  /\ encodeParams.renderer = 0
  /\ gainMapRenderer.renderer = sdr.renderer

\* encodeAndCompress rejected after encode had returned both passes: a
\* read-out threw or a compression rejected.
RejectedAfterEncode ==
  /\ epc = "done"
  /\ encodeParams.fn = "encodeAndCompress"
  /\ encodeOutcome.kind = "throw"
  /\ gainMapRenderer.renders >= 1

\* C11: when encodeAndCompress rejects because a pixel read-out threw or a
\* compression (direct or via worker) rejected, the SDR pass and the gain-map
\* pass have been disposed, their surfaces released, and the renderer created
\* because none was supplied disposed too.  (The statement of the claim; the
\* code violates it.)
C11_RejectionReleasesBothPasses ==
  RejectedAfterEncode =>
     /\ sdr.disposeCalls >= 1
     /\ gainMapRenderer.disposeCalls >= 1
     /\ Released(sdr.renderTarget)
     /\ Released(gainMapRenderer.renderTarget)
     /\ sdr.rendererIsDisposable => Released(sdr.renderer)

\* ------------------------------------------- renderSDR: order of the calls
\* The positions of the backend call c in the log of the current call.
Positions(c) == {i \in 1..Len(log) : log[i] = c}

\* C12: in renderSDR the render and the read-back come before cleanup, which
\* is what disposes the render target and an owned renderer; a call that has
\* ended, on the success path or after a failed render, ran cleanup exactly
\* once; and no read-back follows a failed render.  (The statement of the
\* claim; the code violates it.)
C12_UseBeforeReleaseCleanupOnce ==
  /\ \A i \in Positions("cleanup") :
       \A j \in Positions("render") \cup Positions("renderFailed")
                \cup Positions("readRenderTargetPixels") : j < i
  /\ (pc /= "idle" /\ Positions("cleanup") = {}) =>
       (heap[renderTarget].disposed = 0
          /\ (destroyRenderer => heap[renderer].disposed = 0))
  /\ pc = "done" => Cardinality(Positions("cleanup")) = 1
  /\ Positions("renderFailed") /= {} => Positions("readRenderTargetPixels") = {}

====
